---------------------------- MODULE Spec2Model ----------------------------
(***************************************************************************)
(* Model of the Claude Code mock API proxy (server.js).                    *)
(*                                                                         *)
(* server.js holds two revisions of the server, one after the other: the   *)
(* first (lines 1-450) answers with the model name the client asked for,   *)
(* the second (lines 452-941) answers with TARGET_MODEL.  The variable     *)
(* `variant` says which revision is running.                               *)
(*                                                                         *)
(* Specifications: Spec (one streaming request), SpecReq (the request      *)
(* translation), SpecNon (one non-streaming request), SpecGate             *)
(* (authentication, both modes), SpecPair (two concurrent streaming        *)
(* requests), SpecLive (Spec with an upstream connection that eventually   *)
(* ends or fails), SpecCancel (Spec with a client that may disconnect).    *)
(*                                                                         *)
(* JavaScript strings are TLA+ strings.  The upstream response body is a   *)
(* sequence of pieces; a piece is a run of ASCII bytes, written as the     *)
(* text it decodes to, or one byte of a multi-byte UTF-8 character (a      *)
(* token such as "xC3").  A 'data' chunk is a run of consecutive pieces:   *)
(* a chunk boundary can fall inside the "data: " prefix, between the       *)
(* prefix and the payload, inside the payload and inside the sentinel,     *)
(* between the two bytes of a character, and before and after every        *)
(* newline.                                                                *)
(***************************************************************************)
EXTENDS Integers, Sequences, FiniteSets, TLC

VARIABLES
    variant,    \* 1 or 2: the revision of server.js that is running
    request,    \* req.body of the inbound POST /v1/messages
    mode,       \* "none" | "stream" | "nonstream": the branch the route took
    outbound,   \* the https.request calls made so far, in order
    upstream,   \* state of the outbound connection
    script,     \* the lines upstream sends as the response body, by kind
    pos,        \* how many pieces of the body have arrived in 'data' events
    buffer,     \* handleStreamingResponse: let buffer
    totalOutputTokens,  \* handleStreamingResponse: let totalOutputTokens
    res,        \* the inbound response object
    auth,       \* MOCK_API_KEY and the credential headers of the inbound request
    reply,      \* what upstream answers to a non-streaming request
    peer        \* a second streaming request served at the same time

vars == <<variant, request, mode, outbound, upstream, script, pos, buffer,
          totalOutputTokens, res, auth, reply, peer>>

-----------------------------------------------------------------------------
(* Bounds *)

MaxLines == 2      \* lines upstream sends before the optional sentinel

-----------------------------------------------------------------------------
(* Strings *)

\* String.prototype.startsWith
StartsWith(s, p) == Len(s) >= Len(p) /\ SubSeq(s, 1, Len(p)) = p

EndsWith(s, p) == Len(s) >= Len(p) /\ SubSeq(s, Len(s) - Len(p) + 1, Len(s)) = p

\* String.prototype.slice(n)
Slice(s, n) == SubSeq(s, n + 1, Len(s))

\* the positions of the newlines of s
Newlines(s) == {i \in 1..Len(s) : SubSeq(s, i, i) = "\n"}

\* the k-th of the positions nl of a string of length n; 0 for k = 0, n + 1
\* past the last
NewlineAt(nl, k, n) ==
    IF k = 0 THEN 0
    ELSE IF k > Cardinality(nl) THEN n + 1
    ELSE CHOOSE i \in nl : Cardinality({j \in nl : j <= i}) = k

\* String.prototype.split('\n'): the texts between the newlines, always at
\* least one
SplitNewline(s) ==
    LET nl == Newlines(s) IN
    [k \in 1..(Cardinality(nl) + 1) |->
        SubSeq(s, NewlineAt(nl, k - 1, Len(s)) + 1, NewlineAt(nl, k, Len(s)) - 1)]

-----------------------------------------------------------------------------
(* UTF-8: Buffer.prototype.toString() decodes each chunk on its own.  The  *)
(* two bytes xC3 xA9 are the character U+00E9; a lead byte without its     *)
(* continuation byte in the same chunk, and a continuation byte without    *)
(* its lead byte, each decode to the replacement character U+FFFD.  In a   *)
(* decoded string "e" stands for U+00E9 and "?" for U+FFFD.                *)

LeadByte == "xC3"
ContByte == "xA9"
CharE9 == "e"
CharFFFD == "?"

\* what the piece at position i decodes to: the character, for a lead byte
\* followed by its continuation byte; nothing, for a continuation byte that
\* follows its lead byte; U+FFFD for either byte alone; ASCII as it is
DecodeAt(bytes, i) ==
    IF bytes[i] = LeadByte
    THEN (IF i < Len(bytes) /\ bytes[i + 1] = ContByte THEN CharE9 ELSE CharFFFD)
    ELSE IF bytes[i] = ContByte
    THEN (IF i > 1 /\ bytes[i - 1] = LeadByte THEN "" ELSE CharFFFD)
    ELSE bytes[i]

RECURSIVE DecodeFrom(_, _)
DecodeFrom(bytes, i) ==
    IF i > Len(bytes) THEN "" ELSE DecodeAt(bytes, i) \o DecodeFrom(bytes, i + 1)

\* chunk.toString()
ChunkToString(chunk) == DecodeFrom(chunk, 1)

-----------------------------------------------------------------------------
(* Upstream stream lines and JSON.parse.                                   *)
(*                                                                         *)
(* JsonParse is JSON.parse on the texts the model can hand to it: the      *)
(* payloads below, their fragments and their concatenations.  A text is a  *)
(* chat-completion chunk with a text delta when it is DeltaOpen, a run of  *)
(* plain string characters, and DeltaClose; the other complete texts are   *)
(* listed; every other text (a fragment of these) is not JSON and throws.  *)

DeltaOpen == "{\"choices\":[{\"delta\":{\"content\":\""
DeltaClose == "\"}}]}"
FinishText == "{\"choices\":[{\"delta\":{\"content\":\"\"},\"finish_reason\":\"stop\"}]}"
ErrorText == "{\"error\":{\"message\":\"boom\"}}"
TruncatedText == "{\"choices\":[{\"del"

\* characters that end or escape a JSON string, or may not occur in one
PlainChar(c) == c \notin {"\"", "\\", "\n"}

JsonParse(text) ==
    IF /\ StartsWith(text, DeltaOpen)
       /\ EndsWith(text, DeltaClose)
       /\ Len(text) >= Len(DeltaOpen) + Len(DeltaClose)
       /\ \A i \in (Len(DeltaOpen) + 1)..(Len(text) - Len(DeltaClose)) :
              PlainChar(SubSeq(text, i, i))
    THEN [ok |-> TRUE,
          value |-> [choices |-> <<[delta |-> [content |->
                       SubSeq(text, Len(DeltaOpen) + 1, Len(text) - Len(DeltaClose))]]>>]]
    ELSE IF text = FinishText
    THEN [ok |-> TRUE,
          value |-> [choices |-> <<[delta |-> [content |-> ""],
                                    finish_reason |-> "stop"]>>]]
    ELSE IF text = ErrorText
    THEN [ok |-> TRUE, value |-> [error |-> [message |-> "boom"]]]
    ELSE [ok |-> FALSE]

DataPrefix == "data: "
DoneText == "[DONE]"

\* the pieces of the upstream line "data: <json chunk with text delta t>",
\* t given as its bytes
DeltaLine(t) ==
    <<"da", "ta: ", "{\"choices\":[{\"del", "ta\":{\"content\":\"">> \o t \o <<DeltaClose>>

LineA == DeltaLine(<<"a">>)
LineE9 == DeltaLine(<<LeadByte, ContByte>>)   \* the text is U+00E9, two bytes
\* content "", finish_reason "stop"
LineFinish ==
    <<"da", "ta: ", "{\"choices\":[{\"del",
      "ta\":{\"content\":\"\"},\"finish_reason\":\"stop\"}]}">>
LineTruncated == <<"da", "ta: ", TruncatedText>>   \* a data line that is not JSON
LineComment == <<":", " OPENROUTER PROCESSING">>   \* SSE comment, no data prefix
LineDone == <<"da", "ta: ", "[DO", "NE]">>
\* a JSON error object sent as the whole body instead of an event stream
LineErrorObject == <<"{\"error\":", "{\"message\":\"boom\"}}">>

\* the pieces of the upstream line of each kind
LineOf(kind) ==
    CASE kind = "delta_a" -> LineA
      [] kind = "delta_e9" -> LineE9
      [] kind = "finish" -> LineFinish
      [] kind = "truncated" -> LineTruncated
      [] kind = "comment" -> LineComment
      [] kind = "done" -> LineDone
      [] kind = "error_object" -> LineErrorObject

\* the text delta an upstream line of a kind carries, "" when it carries none
DeltaTextOf(kind) ==
    IF kind = "delta_a" THEN "a"
    ELSE IF kind = "delta_e9" THEN CharE9
    ELSE ""

-----------------------------------------------------------------------------
(* Request translation: transformToOpenAI.                                 *)
(*                                                                         *)
(* A JavaScript value that is a string or a list is a record with a `kind` *)
(* field ("string", "array", or "undefined" when the property is missing), *)
(* so that typeof / Array.isArray are tests of that field.                 *)

Undefined == [kind |-> "undefined"]
S(t) == [kind |-> "string", text |-> t]
A(items) == [kind |-> "array", items |-> items]

\* JavaScript truthiness of a string-or-list-or-undefined value
Truthy(v) ==
    \/ v.kind = "array"
    \/ v.kind = "string" /\ v.text # ""

\* Array.prototype.join on a list of strings
RECURSIVE Join(_, _)
Join(ts, sep) ==
    IF ts = <<>> THEN ""
    ELSE IF Len(ts) = 1 THEN ts[1]
    ELSE ts[1] \o sep \o Join(Tail(ts), sep)

TargetModelV1 == "anthropic/claude-sonnet-4-20250514"
TargetModelV2 == "anthropic/claude-3.5-sonnet"

\* const TARGET_MODEL, in the revision v of server.js
TARGET_MODEL(v) == IF v = 1 THEN TargetModelV1 ELSE TargetModelV2

\* mutant of RequestModelField: the client's model name is passed on
RequestModelFieldFromClient(v, anthropicRequest) ==
    IF anthropicRequest.model # "" THEN anthropicRequest.model ELSE TARGET_MODEL(v)

\* the `model:` property of the object transformToOpenAI returns
RequestModelField(v, anthropicRequest) == TARGET_MODEL(v)

\* the fallback of `req.body.model || ...` in the first revision's route
DefaultOriginalModel == "claude-3-5-sonnet-20241022"

\* JSON.stringify(block.input, null, 2) for the tool inputs of the model:
\* the empty object and objects with the one string property q
JsonStringifyPretty(input) ==
    IF DOMAIN input = {} THEN "{}"
    ELSE "{\n  \"q\": \"" \o input.q \o "\"\n}"

\* JSON.stringify of a list of text blocks (a structured tool_result content)
JsonStringifyBlock(b) == "{\"type\":\"text\",\"text\":\"" \o b.text \o "\"}"

JsonStringifyBlocks(blocks) ==
    "[" \o Join([i \in 1..Len(blocks) |-> JsonStringifyBlock(blocks[i])], ",") \o "]"

\* the url of an image part
ImageUrl(block) ==
    IF "source" \in DOMAIN block /\ "data" \in DOMAIN block.source
       /\ block.source.data # ""
    THEN S("data:" \o block.source.media_type \o ";base64," \o block.source.data)
    ELSE IF "source" \in DOMAIN block /\ "url" \in DOMAIN block.source
    THEN S(block.source.url)
    ELSE Undefined

\* one content block as the list of parts it adds (none for an unknown type)
BlockToParts(block) ==
    IF block.type = "text"
    THEN <<[type |-> "text", text |-> block.text]>>
    ELSE IF block.type = "image"
    THEN <<[type |-> "image_url", image_url |-> [url |-> ImageUrl(block)]]>>
    ELSE IF block.type = "tool_use"
    THEN <<[type |-> "text",
            text |-> "[Tool Call: " \o block.name \o "]\n"
                     \o JsonStringifyPretty(block.input)]>>
    ELSE IF block.type = "tool_result"
    THEN <<[type |-> "text",
            text |-> "[Tool Result for " \o block.tool_use_id \o "]\n"
                     \o (IF block.content.kind = "string"
                         THEN block.content.text
                         ELSE JsonStringifyBlocks(block.content.items))]>>
    ELSE <<>>

RECURSIVE BlocksToParts(_)
BlocksToParts(blocks) ==
    IF blocks = <<>> THEN <<>>
    ELSE BlockToParts(Head(blocks)) \o BlocksToParts(Tail(blocks))

PartText(p) == p.text

\* mutant of CollapseParts: only a single text part is simplified
CollapsePartsSingleOnly(parts) ==
    IF Len(parts) = 1 /\ parts[1].type = "text"
    THEN S(parts[1].text)
    ELSE A(parts)

\* "If all parts are text, simplify to string"
CollapseParts(parts) ==
    IF Len(parts) = 1 /\ parts[1].type = "text"
    THEN S(parts[1].text)
    ELSE IF \A i \in 1..Len(parts) : parts[i].type = "text"
    THEN S(Join([i \in 1..Len(parts) |-> PartText(parts[i])], "\n"))
    ELSE A(parts)

MapRole(role) == IF role = "assistant" THEN "assistant" ELSE "user"

\* one source message as the list of target messages it adds
TransformMessage(msg) ==
    IF msg.content.kind = "string"
    THEN <<[role |-> MapRole(msg.role), content |-> S(msg.content.text)]>>
    ELSE IF msg.content.kind = "array"
    THEN <<[role |-> MapRole(msg.role),
            content |-> CollapseParts(BlocksToParts(msg.content.items))]>>
    ELSE <<>>

\* mutant of TransformMessages: each message is put in front of the list
RECURSIVE TransformMessagesReversed(_)
TransformMessagesReversed(msgs) ==
    IF msgs = <<>> THEN <<>>
    ELSE TransformMessagesReversed(Tail(msgs)) \o TransformMessage(Head(msgs))

\* "Transform messages": the loop over anthropicRequest.messages
RECURSIVE TransformMessages(_)
TransformMessages(msgs) ==
    IF msgs = <<>> THEN <<>>
    ELSE TransformMessage(Head(msgs)) \o TransformMessages(Tail(msgs))

IsTextBlock(b) == b.type = "text"

BlockText(b) == b.text

\* "Handle system prompt"
SystemMessages(system) ==
    IF ~Truthy(system) THEN <<>>
    ELSE IF system.kind = "string"
    THEN <<[role |-> "system", content |-> S(system.text)]>>
    ELSE <<[role |-> "system",
            content |-> LET texts == SelectSeq(system.items, IsTextBlock)
                        IN S(Join([i \in 1..Len(texts) |-> BlockText(texts[i])], "\n"))]>>

ToolToFunction(tool) ==
    [type |-> "function",
     function |-> [name |-> tool.name, description |-> tool.description,
                   parameters |-> tool.input_schema]]

\* optional numbers: [some |-> FALSE] is undefined/null
None == [some |-> FALSE]
Some(n) == [some |-> TRUE, v |-> n]

DefaultMaxTokens == 8192
DefaultTemperature == 1

\* anthropicRequest.max_tokens || 8192
MaxTokensField(anthropicRequest) ==
    IF anthropicRequest.max_tokens.some /\ anthropicRequest.max_tokens.v # 0
    THEN anthropicRequest.max_tokens.v
    ELSE DefaultMaxTokens

\* mutant of TemperatureField: a temperature of 0 is replaced as well
TemperatureFieldFalsy(anthropicRequest) ==
    IF anthropicRequest.temperature.some /\ anthropicRequest.temperature.v # 0
    THEN anthropicRequest.temperature.v
    ELSE DefaultTemperature

\* anthropicRequest.temperature ?? 1
TemperatureField(anthropicRequest) ==
    IF anthropicRequest.temperature.some
    THEN anthropicRequest.temperature.v
    ELSE DefaultTemperature

\* transformToOpenAI(anthropicRequest), in the revision v of server.js
transformToOpenAI(v, anthropicRequest) ==
    [model |-> RequestModelField(v, anthropicRequest),
     messages |-> SystemMessages(anthropicRequest.system)
                  \o TransformMessages(IF anthropicRequest.messages.kind = "array"
                                       THEN anthropicRequest.messages.items
                                       ELSE <<>>),
     max_tokens |-> MaxTokensField(anthropicRequest),
     temperature |-> TemperatureField(anthropicRequest),
     top_p |-> anthropicRequest.top_p,
     stream |-> anthropicRequest.stream,
     tools |-> IF anthropicRequest.tools.kind = "array"
               THEN A([i \in 1..Len(anthropicRequest.tools.items) |->
                          ToolToFunction(anthropicRequest.tools.items[i])])
               ELSE Undefined]

-----------------------------------------------------------------------------
(* Authentication: validateApiKey.                                         *)
(*                                                                         *)
(* auth.MOCK_API_KEY is the configured secret, "" when the variable is not *)
(* set; auth.x_api_key and auth.authorization are the two request headers, *)
(* Undefined when the header is missing.                                   *)

\* String.prototype.indexOf, counted from 1; 0 when p does not occur in s
IndexOf(s, p) ==
    LET hits == {i \in 1..(Len(s) - Len(p) + 1) : SubSeq(s, i, i + Len(p) - 1) = p}
    IN IF hits = {} THEN 0 ELSE CHOOSE i \in hits : \A j \in hits : i <= j

\* s.replace(p, ''): s without the first occurrence of p
RemoveFirst(s, p) ==
    LET i == IndexOf(s, p)
    IN IF i = 0 THEN s ELSE SubSeq(s, 1, i - 1) \o SubSeq(s, i + Len(p), Len(s))

\* req.headers['x-api-key'] || req.headers['authorization']
AuthHeader(a) == IF Truthy(a.x_api_key) THEN a.x_api_key ELSE a.authorization

\* authHeader?.replace('Bearer ', '')
ApiKey(a) ==
    IF AuthHeader(a).kind = "undefined" THEN Undefined
    ELSE S(RemoveFirst(AuthHeader(a).text, "Bearer "))

\* validateApiKey: TRUE when it calls next(), FALSE when it answers 401
validateApiKey(a) ==
    IF a.MOCK_API_KEY = "" THEN TRUE
    ELSE Truthy(ApiKey(a)) /\ ApiKey(a).text = a.MOCK_API_KEY

\* no secret configured, no credential sent
NoAuth == [MOCK_API_KEY |-> "", x_api_key |-> Undefined, authorization |-> Undefined]

-----------------------------------------------------------------------------
(* Response translation: transformToAnthropic.                             *)
(*                                                                         *)
(* A parsed upstream response is a record [id, choices, usage, error]; a   *)
(* choice is [kind, message, finish_reason]; a message is [kind, content,  *)
(* tool_calls]; a tool call is [id, function |-> [name, arguments]].  A    *)
(* property that is missing or null has the value Undefined.               *)

Obj(members) == [kind |-> "object", members |-> members]

Digits == {"0", "1", "2", "3", "4", "5", "6", "7", "8", "9"}

\* JSON.parse on an arguments string: the empty object, an object with one
\* one-character key and a one-digit value, and every other text of the
\* model (a truncated object, the empty string), which throws
JsonParseArguments(text) ==
    IF text = "{}" THEN [ok |-> TRUE, value |-> Obj(<<>>)]
    ELSE IF /\ Len(text) = 7
            /\ SubSeq(text, 1, 2) = "{\""
            /\ PlainChar(SubSeq(text, 3, 3))
            /\ SubSeq(text, 4, 5) = "\":"
            /\ SubSeq(text, 6, 6) \in Digits
            /\ SubSeq(text, 7, 7) = "}"
    THEN [ok |-> TRUE,
          value |-> Obj(<<[key |-> SubSeq(text, 3, 3), value |-> SubSeq(text, 6, 6)]>>)]
    ELSE [ok |-> FALSE]

\* openaiResponse.choices?.[0]
FirstChoice(openaiResponse) ==
    IF openaiResponse.choices.kind = "array" /\ Len(openaiResponse.choices.items) >= 1
    THEN openaiResponse.choices.items[1]
    ELSE Undefined

\* choice?.message
ChoiceMessage(choice) == IF choice.kind = "undefined" THEN Undefined ELSE choice.message

\* choice?.finish_reason
FinishReason(choice) == IF choice.kind = "undefined" THEN Undefined ELSE choice.finish_reason

\* message?.content
MessageContent(message) == IF message.kind = "undefined" THEN Undefined ELSE message.content

\* message?.tool_calls
MessageToolCalls(message) ==
    IF message.kind = "undefined" THEN Undefined ELSE message.tool_calls

\* mutant of TextBlocks: a text block for every content that is present,
\* the empty string included
TextBlocksDefined(message) ==
    IF MessageContent(message).kind # "undefined"
    THEN <<[type |-> "text", text |-> MessageContent(message).text]>>
    ELSE <<>>

\* the text block pushed when message.content is truthy
TextBlocks(message) ==
    IF Truthy(MessageContent(message))
    THEN <<[type |-> "text", text |-> MessageContent(message).text]>>
    ELSE <<>>

\* JSON.parse(toolCall.function.arguments || '{}')
ParseToolArguments(toolCall) ==
    JsonParseArguments(IF Truthy(toolCall.function.arguments)
                       THEN toolCall.function.arguments.text
                       ELSE "{}")

\* the tool calls the loop goes over
ToolCallList(message) ==
    IF Truthy(MessageToolCalls(message)) THEN MessageToolCalls(message).items ELSE <<>>

\* the tool_use blocks pushed by the loop, when no JSON.parse throws
ToolUseBlocks(message) ==
    [i \in 1..Len(ToolCallList(message)) |->
        [type |-> "tool_use",
         id |-> ToolCallList(message)[i].id,
         name |-> ToolCallList(message)[i].function.name,
         input |-> ParseToolArguments(ToolCallList(message)[i]).value]]

\* mutant of StopReason: 'length' is not told apart
StopReasonNoLength(choice) ==
    IF FinishReason(choice) = S("stop") THEN "end_turn"
    ELSE IF FinishReason(choice) = S("tool_calls") THEN "tool_use"
    ELSE "end_turn"

\* the stop_reason expression
StopReason(choice) ==
    IF FinishReason(choice) = S("stop") THEN "end_turn"
    ELSE IF FinishReason(choice) = S("tool_calls") THEN "tool_use"
    ELSE IF FinishReason(choice) = S("length") THEN "max_tokens"
    ELSE "end_turn"

\* openaiResponse.usage?.prompt_tokens || 0, and the same for completion_tokens
UsageOf(openaiResponse) ==
    IF openaiResponse.usage.kind = "undefined"
    THEN [input_tokens |-> 0, output_tokens |-> 0]
    ELSE [input_tokens |-> openaiResponse.usage.prompt_tokens,
          output_tokens |-> openaiResponse.usage.completion_tokens]

\* `msg_${Date.now()}`
GeneratedId == "msg_<Date.now()>"

\* const originalModel = req.body.model || 'claude-3-5-sonnet-20241022'
OriginalModel(req) == IF req.model # "" THEN req.model ELSE DefaultOriginalModel

\* transformToAnthropic(openaiResponse, originalModel) in the revision v of
\* server.js: [ok |-> FALSE] when it throws (a JSON.parse of an arguments
\* string), else the SourceResponse
transformToAnthropic(v, openaiResponse, originalModel) ==
    LET choice == FirstChoice(openaiResponse)
        message == ChoiceMessage(choice)
        calls == ToolCallList(message)
    IN IF \E i \in 1..Len(calls) : ~ParseToolArguments(calls[i]).ok
       THEN [ok |-> FALSE]
       ELSE LET content == TextBlocks(message) \o ToolUseBlocks(message) IN
            [ok |-> TRUE,
             value |-> [id |-> IF Truthy(openaiResponse.id) THEN openaiResponse.id.text
                               ELSE GeneratedId,
                        type |-> "message",
                        role |-> "assistant",
                        model |-> IF v = 1 THEN originalModel ELSE TARGET_MODEL(v),
                        content |-> IF Len(content) > 0 THEN content
                                    ELSE <<[type |-> "text", text |-> ""]>>,
                        stop_reason |-> StopReason(choice),
                        stop_sequence |-> "null",
                        usage |-> UsageOf(openaiResponse)]]

-----------------------------------------------------------------------------
(* The inbound response object `res` (an http.ServerResponse).             *)
(*   events         the SSE frames, or the one JSON response, written and  *)
(*                  delivered to the client                                *)
(*   writableEnded  res.end() has been called                              *)
(*   writeAfterEnd  res.write calls made after res.end(): Node delivers    *)
(*                  nothing to the client and raises                       *)
(*                  ERR_STREAM_WRITE_AFTER_END for each; and res.json      *)
(*                  calls made after the response was sent                 *)
(*   endCalls       res.end() calls                                        *)
(*   destroyed      the client closed the inbound connection: Node         *)
(*                  destroys the response and raises 'close' on req and    *)
(*                  res; a later res.write delivers nothing and raises no  *)
(*                  'error' event                                          *)

NewRes ==
    [events |-> <<>>, writableEnded |-> FALSE, writeAfterEnd |-> 0, endCalls |-> 0,
     destroyed |-> FALSE]

\* res.write(frame)
ResWrite(r, ev) ==
    IF r.writableEnded
    THEN [r EXCEPT !.writeAfterEnd = @ + 1]
    ELSE IF r.destroyed
    THEN r
    ELSE [r EXCEPT !.events = Append(@, ev)]

\* res.end()
ResEnd(r) == [r EXCEPT !.writableEnded = TRUE, !.endCalls = @ + 1]

\* res.status(status).json(body): one complete HTTP response; when the
\* response was already sent, Express throws ERR_HTTP_HEADERS_SENT and the
\* client receives nothing more
ResJson(r, status, body) ==
    IF r.writableEnded
    THEN [r EXCEPT !.writeAfterEnd = @ + 1]
    ELSE [r EXCEPT !.events = Append(@, [type |-> "http_response", status |-> status,
                                         body |-> body]),
                   !.writableEnded = TRUE,
                   !.endCalls = @ + 1]

\* the body {type:'error', error:{type, message}}
ErrorBody(errorType, message) ==
    [type |-> "error", error |-> [type |-> errorType, message |-> message]]

MessageStartEvent(model) ==
    [type |-> "message_start", role |-> "assistant", model |-> model,
     content |-> <<>>, stop_reason |-> "null", stop_sequence |-> "null",
     input_tokens |-> 0, output_tokens |-> 0]

ContentBlockStartEvent ==
    [type |-> "content_block_start", index |-> 0, block_type |-> "text", text |-> ""]

ContentBlockDeltaEvent(text) ==
    [type |-> "content_block_delta", index |-> 0, delta_type |-> "text_delta",
     text |-> text]

ContentBlockStopEvent == [type |-> "content_block_stop", index |-> 0]

MessageDeltaEvent(n) ==
    [type |-> "message_delta", stop_reason |-> "end_turn", stop_sequence |-> "null",
     output_tokens |-> n]

MessageStopEvent == [type |-> "message_stop"]

ErrorEvent(message) == [type |-> "error", error_type |-> "api_error", message |-> message]

\* the model name the streaming handler puts in message_start
StreamModel(v, req) ==
    IF v = 1
    THEN (IF req.model # "" THEN req.model ELSE DefaultOriginalModel)
    ELSE TARGET_MODEL(v)

\* mutant of StreamOpen: the two opening frames in the other order
StreamOpenSwapped(r, v, req) ==
    ResWrite(ResWrite(r, ContentBlockStartEvent), MessageStartEvent(StreamModel(v, req)))

\* handleStreamingResponse up to https.request: the two opening frames
StreamOpen(r, v, req) ==
    ResWrite(ResWrite(r, MessageStartEvent(StreamModel(v, req))), ContentBlockStartEvent)

-----------------------------------------------------------------------------
(* proxyRes.on('data') of handleStreamingResponse.  st is the record       *)
(* [buffer, totalOutputTokens, res].                                       *)

\* mutant of EmitClosing: the closing frames without res.end()
EmitClosingNoEnd(st) ==
    [st EXCEPT !.res =
        ResWrite(ResWrite(ResWrite(@, ContentBlockStopEvent),
                          MessageDeltaEvent(st.totalOutputTokens)),
                 MessageStopEvent)]

\* the branch taken for `data === '[DONE]'`
EmitClosing(st) ==
    [st EXCEPT !.res =
        ResEnd(ResWrite(ResWrite(ResWrite(@, ContentBlockStopEvent),
                                 MessageDeltaEvent(st.totalOutputTokens)),
                        MessageStopEvent))]

\* parsed.choices?.[0]?.delta?.content, "" when any step is missing
DeltaContent(parsed) ==
    IF /\ "choices" \in DOMAIN parsed
       /\ Len(parsed.choices) >= 1
       /\ "delta" \in DOMAIN parsed.choices[1]
       /\ "content" \in DOMAIN parsed.choices[1].delta
    THEN parsed.choices[1].delta.content
    ELSE ""

\* the try block: parse the payload, emit a delta when it has a text
EmitDelta(st, data) ==
    LET p == JsonParse(data) IN
    IF p.ok /\ DeltaContent(p.value) # ""
    THEN [st EXCEPT !.totalOutputTokens = @ + 1,
                    !.res = ResWrite(@, ContentBlockDeltaEvent(DeltaContent(p.value)))]
    ELSE st

\* the for loop over the complete lines; the sentinel returns from the handler
RECURSIVE ProcessLines(_, _, _)
ProcessLines(st, lines, i) ==
    IF i > Len(lines) THEN st
    ELSE IF StartsWith(lines[i], DataPrefix)
    THEN IF Slice(lines[i], 6) = DoneText
         THEN EmitClosing(st)
         ELSE ProcessLines(EmitDelta(st, Slice(lines[i], 6)), lines, i + 1)
    ELSE ProcessLines(st, lines, i + 1)

\* buffer = lines.pop() || ''
RetainFragment(lines) == lines[Len(lines)]

OnData(st, chunk) ==
    LET text == st.buffer \o ChunkToString(chunk)
        lines == SplitNewline(text)
    IN ProcessLines([st EXCEPT !.buffer = RetainFragment(lines)],
                    SubSeq(lines, 1, Len(lines) - 1), 1)

\* mutant of OnEnd: the client connection is left open
OnEndForget(r) == r

\* mutant of OnEnd: the text left in the line buffer is processed as a last
\* line before the connection is closed
OnEndFlush(r) ==
    LET st == ProcessLines([buffer |-> "", totalOutputTokens |-> totalOutputTokens,
                            res |-> r], <<buffer>>, 1)
    IN IF ~st.res.writableEnded THEN ResEnd(st.res) ELSE st.res

\* the body of proxyRes.on('end')
OnEnd(r) == IF ~r.writableEnded THEN ResEnd(r) ELSE r

\* mutant of OnResponseError: the client connection is left open
OnResponseErrorForget(r) == r

\* the body of proxyRes.on('error')
OnResponseError(r) == ResEnd(r)

\* the body of proxyReq.on('error'); message is err.message
OnRequestError(r, message) == ResEnd(ResWrite(r, ErrorEvent(message)))

-----------------------------------------------------------------------------
(* handleNonStreamingResponse.                                             *)
(*                                                                         *)
(* What upstream answers is reply = [statusCode, body]; the body is a JSON *)
(* text, given by the value it denotes, or a text that is not JSON (an     *)
(* HTML error page, an empty body).  `data`, the concatenation of the      *)
(* chunks, is the body when 'end' is delivered.                            *)

JsonBody(value) == [json |-> TRUE, value |-> value]
NotJsonBody == [json |-> FALSE]

\* JSON.parse(data)
JsonParseBody(body) ==
    IF body.json THEN [ok |-> TRUE, value |-> body.value] ELSE [ok |-> FALSE]

\* err.message of the SyntaxError JSON.parse throws
ParseErrorMessage == "Unexpected end of JSON input"

\* the catch of the route handler, reached when the awaited promise is
\* rejected: a second res.status(500).json(...)
RouteCatch(r, message) == ResJson(r, 500, ErrorBody("api_error", message))

\* the catch of the 'end' handler: the 500 answer, then reject(err)
OnParseFailure(r) ==
    RouteCatch(ResJson(r, 500, ErrorBody("api_error", "Failed to parse response")),
               ParseErrorMessage)

\* proxyRes.statusCode || 500
ErrorStatus(statusCode) == IF statusCode # 0 THEN statusCode ELSE 500

\* openaiResponse.error.message || 'OpenRouter API error'
UpstreamErrorMessage(error) ==
    IF Truthy(error.message) THEN error.message.text ELSE "OpenRouter API error"

\* the body of proxyRes.on('end') in handleNonStreamingResponse, with the
\* continuation of the route handler after its await
OnNonStreamEnd(r, v, rep, originalModel) ==
    LET parsed == JsonParseBody(rep.body) IN
    IF ~parsed.ok THEN OnParseFailure(r)
    ELSE IF parsed.value.error.kind # "undefined"
    THEN ResJson(r, ErrorStatus(rep.statusCode),
                 ErrorBody("api_error", UpstreamErrorMessage(parsed.value.error)))
    ELSE LET t == transformToAnthropic(v, parsed.value, originalModel) IN
         IF t.ok THEN ResJson(r, 200, t.value) ELSE OnParseFailure(r)

\* the body of proxyReq.on('error') in handleNonStreamingResponse, with the
\* continuation of the route handler after its await
OnNonStreamRequestError(r, message) ==
    RouteCatch(ResJson(r, 500, ErrorBody("api_error", message)), message)

-----------------------------------------------------------------------------
(* Inputs: the inbound requests and the upstream response bodies.          *)

\* sequences over S of length at most n
SeqsUpTo(Set, n) == UNION {[1..k -> Set] : k \in 0..n}

BaseRequest ==
    [model |-> "claude-x", system |-> Undefined, messages |-> A(<<>>),
     max_tokens |-> None, temperature |-> None, top_p |-> None,
     stream |-> FALSE, tools |-> Undefined]

UserHi == [role |-> "user", content |-> S("hi")]

\* the requests of the streaming specification
StreamRequests ==
    {[BaseRequest EXCEPT !.stream = st, !.messages = A(<<UserHi>>)] : st \in BOOLEAN}

\* lines upstream may send before the sentinel
PreLines == {"delta_a", "delta_e9", "finish", "truncated", "comment"}

\* how upstream may go on: it stops without a sentinel, it sends the
\* sentinel, or it sends the sentinel and then a delta and a second sentinel
Tails == {<<>>, <<"done">>, <<"done", "delta_a", "done">>}

\* the line sequences upstream may send: lines and a tail, or a JSON error
\* object and nothing else
LineSeqs ==
    {pre \o tail : pre \in SeqsUpTo(PreLines, MaxLines), tail \in Tails}
    \cup {<<"error_object">>}

\* the pieces of a line sequence: every line ends with a newline
RECURSIVE WireOf(_)
WireOf(lines) ==
    IF lines = <<>> THEN <<>>
    ELSE LineOf(Head(lines)) \o <<"\n">> \o WireOf(Tail(lines))

\* the response body upstream sends
wire == WireOf(script)

\* tool calls in one upstream message, at most
MaxCalls == 2

ToolCall(id, name, arguments) ==
    [id |-> id, function |-> [name |-> name, arguments |-> arguments]]

\* tool calls upstream may send: arguments that are a JSON object, the
\* empty string, no arguments, and arguments that are not JSON
ToolCalls ==
    {ToolCall("call_a", "get_a", S("{\"q\":1}")),
     ToolCall("call_b", "get_b", S("")),
     ToolCall("call_c", "get_c", Undefined),
     ToolCall("call_x", "get_x", S("{\"q\":"))}

ChatMessage(content, tool_calls) ==
    [kind |-> "object", content |-> content, tool_calls |-> tool_calls]

Choice(message, finish_reason) ==
    [kind |-> "object", message |-> message, finish_reason |-> finish_reason]

Completion(id, choices, usage) ==
    [id |-> id, choices |-> choices, usage |-> usage, error |-> Undefined]

FinishReasons == {S("stop"), S("tool_calls"), S("length"), S("content_filter"), Undefined}

UsageThreeOne == [kind |-> "object", prompt_tokens |-> 3, completion_tokens |-> 1]

\* the completions upstream may send: one choice with every finish_reason,
\* content and tool call list of the model; no choices; an empty choices
\* list; a choice without a message
Completions ==
    {Completion(S("gen-1"), A(<<Choice(ChatMessage(c, tc), f)>>), UsageThreeOne) :
        c \in {Undefined, S(""), S("ok")},
        tc \in {Undefined} \cup {A(calls) : calls \in SeqsUpTo(ToolCalls, MaxCalls)},
        f \in FinishReasons}
    \cup {Completion(Undefined, Undefined, Undefined),
          Completion(S("gen-1"), A(<<>>), Undefined),
          Completion(S("gen-1"), A(<<Choice(Undefined, S("stop"))>>), UsageThreeOne)}

\* the error objects upstream may send
UpstreamErrors ==
    {[id |-> Undefined, choices |-> Undefined, usage |-> Undefined,
      error |-> [kind |-> "object", message |-> m]] : m \in {S("boom"), Undefined}}

\* what upstream may answer to a non-streaming request
Replies ==
    {[statusCode |-> 200, body |-> JsonBody(c)] : c \in Completions}
    \cup {[statusCode |-> st, body |-> b] :
            st \in {200, 429, 500},
            b \in {JsonBody(e) : e \in UpstreamErrors} \cup {NotJsonBody}}

\* no answer: the request is a streaming one
NoReply == [statusCode |-> 0, body |-> NotJsonBody]

\* no second request
NoPeer ==
    [request |-> BaseRequest, script |-> <<>>, outbound |-> <<>>, upstream |-> "none",
     pos |-> 0, buffer |-> "", totalOutputTokens |-> 0, res |-> NewRes]

-----------------------------------------------------------------------------
(* The streaming specification: one inbound POST /v1/messages.             *)
(*                                                                         *)
(* upstream: "none"       no outbound request yet                          *)
(*           "requested"  https.request called, no response yet            *)
(*           "responding" the response callback has run, body arriving     *)
(*           "ended"      proxyRes 'end' delivered                         *)
(*           "failed"     proxyReq 'error' delivered before any response   *)
(*           "reset"      proxyReq 'error' delivered during the response:  *)
(*                        Node then destroys the response, which raises    *)
(*                        proxyRes 'error'                                 *)
(*           "aborted"    proxyRes 'error' delivered                       *)

Init ==
    /\ variant \in {1, 2}
    /\ request \in StreamRequests
    /\ script \in LineSeqs
    /\ mode = "none"
    /\ outbound = <<>>
    /\ upstream = "none"
    /\ pos = 0
    /\ buffer = ""
    /\ totalOutputTokens = 0
    /\ res = NewRes
    /\ auth = NoAuth
    /\ reply = NoReply
    /\ peer = NoPeer

\* app.post('/v1/messages', validateApiKey, logRequest, ...): the middleware
\* and the route handler up to its first await
PostMessages ==
    /\ mode = "none"
    /\ IF ~validateApiKey(auth)
       THEN /\ mode' = "rejected"
            /\ res' = ResJson(res, 401, ErrorBody("authentication_error", "Invalid API key"))
            /\ UNCHANGED <<outbound, upstream>>
       ELSE /\ LET openaiRequest == transformToOpenAI(variant, request) IN
               IF openaiRequest.stream
               THEN /\ mode' = "stream"
                    /\ res' = StreamOpen(res, variant, request)
                    /\ outbound' = Append(outbound,
                                          [body |-> openaiRequest,
                                           framesBefore |-> Len(StreamOpen(res, variant, request).events)])
               ELSE /\ mode' = "nonstream"
                    /\ res' = res
                    /\ outbound' = Append(outbound,
                                          [body |-> openaiRequest, framesBefore |-> Len(res.events)])
            /\ upstream' = "requested"
    /\ UNCHANGED <<variant, request, script, pos, buffer, totalOutputTokens, auth, reply, peer>>

\* the callback of https.request in handleStreamingResponse
StreamResponse ==
    /\ mode = "stream"
    /\ upstream = "requested"
    /\ upstream' = "responding"
    /\ buffer' = ""
    /\ totalOutputTokens' = 0
    /\ UNCHANGED <<variant, request, mode, outbound, script, pos, res, auth, reply, peer>>

\* proxyRes.on('data'): the next n pieces of the body arrive as one chunk
StreamData ==
    /\ mode = "stream"
    /\ upstream = "responding"
    /\ \E n \in 1..(Len(wire) - pos) :
        \* st: the handler's variables when it returns
        \E st \in {OnData([buffer |-> buffer, totalOutputTokens |-> totalOutputTokens,
                           res |-> res],
                          SubSeq(wire, pos + 1, pos + n))} :
           /\ pos' = pos + n
           /\ buffer' = st.buffer
           /\ totalOutputTokens' = st.totalOutputTokens
           /\ res' = st.res
    /\ UNCHANGED <<variant, request, mode, outbound, upstream, script, auth, reply, peer>>

\* proxyRes.on('end'): upstream closes the body, after all of wire or, when
\* it stops early, after a part of it
StreamEnd ==
    /\ mode = "stream"
    /\ upstream = "responding"
    /\ upstream' = "ended"
    /\ res' = OnEnd(res)
    /\ UNCHANGED <<variant, request, mode, outbound, script, pos, buffer, totalOutputTokens, auth, reply, peer>>

\* proxyRes.on('error'): the connection closes while the body is arriving
StreamResponseError ==
    /\ mode = "stream"
    /\ upstream \in {"responding", "reset"}
    /\ upstream' = "aborted"
    /\ res' = OnResponseError(res)
    /\ UNCHANGED <<variant, request, mode, outbound, script, pos, buffer, totalOutputTokens, auth, reply, peer>>

\* err.message of the transport failures of the model
TransportMessage == "socket hang up"

\* mutant of StreamRequestError: the request is sent again after a failure
StreamRequestErrorRetry ==
    /\ mode = "stream"
    /\ upstream \in {"requested", "responding"}
    /\ upstream' = "requested"
    /\ outbound' = Append(outbound, outbound[1])
    /\ UNCHANGED <<variant, request, mode, script, pos, buffer, totalOutputTokens, res,
                   auth, reply, peer>>

\* proxyReq.on('error'): a transport error, before or during the response
StreamRequestError ==
    /\ mode = "stream"
    /\ upstream \in {"requested", "responding"}
    /\ upstream' = (IF upstream = "requested" THEN "failed" ELSE "reset")
    /\ res' = OnRequestError(res, TransportMessage)
    /\ UNCHANGED <<variant, request, mode, outbound, script, pos, buffer, totalOutputTokens, auth, reply, peer>>

\* the callback of https.request in handleNonStreamingResponse
NonStreamResponse ==
    /\ mode = "nonstream"
    /\ upstream = "requested"
    /\ upstream' = "responding"
    /\ UNCHANGED <<variant, request, mode, outbound, script, pos, buffer,
                   totalOutputTokens, res, auth, reply, peer>>

\* proxyRes.on('end') in handleNonStreamingResponse: the whole body arrived
NonStreamEnd ==
    /\ mode = "nonstream"
    /\ upstream = "responding"
    /\ upstream' = "ended"
    /\ res' = OnNonStreamEnd(res, variant, reply, OriginalModel(request))
    /\ UNCHANGED <<variant, request, mode, outbound, script, pos, buffer,
                   totalOutputTokens, auth, reply, peer>>

\* proxyReq.on('error') in handleNonStreamingResponse: a transport error,
\* before or during the response
NonStreamRequestError ==
    /\ mode = "nonstream"
    /\ upstream \in {"requested", "responding"}
    /\ upstream' = (IF upstream = "requested" THEN "failed" ELSE "reset")
    /\ res' = OnNonStreamRequestError(res, TransportMessage)
    /\ UNCHANGED <<variant, request, mode, outbound, script, pos, buffer,
                   totalOutputTokens, auth, reply, peer>>

\* the connection closes while the body is arriving: Node raises 'aborted'
\* and 'error' on proxyRes, for which handleNonStreamingResponse registers
\* no listener, so no code of the server runs
NonStreamAborted ==
    /\ mode = "nonstream"
    /\ upstream = "responding"
    /\ upstream' = "aborted"
    /\ UNCHANGED <<variant, request, mode, outbound, script, pos, buffer,
                   totalOutputTokens, res, auth, reply, peer>>

\* the route handler for the second request: handleStreamingResponse up to
\* https.request
PeerPostMessages ==
    /\ peer.upstream = "none"
    /\ peer.request.stream
    /\ peer' = [peer EXCEPT !.upstream = "requested",
                            !.res = StreamOpen(@, variant, peer.request),
                            !.outbound = Append(@, transformToOpenAI(variant, peer.request))]
    /\ UNCHANGED <<variant, request, mode, outbound, upstream, script, pos, buffer,
                   totalOutputTokens, res, auth, reply>>

\* the callback of https.request for the second request: its own buffer and
\* totalOutputTokens
PeerResponse ==
    /\ peer.upstream = "requested"
    /\ peer' = [peer EXCEPT !.upstream = "responding", !.buffer = "",
                            !.totalOutputTokens = 0]
    /\ UNCHANGED <<variant, request, mode, outbound, upstream, script, pos, buffer,
                   totalOutputTokens, res, auth, reply>>

\* mutant of PeerClosure: buffer and totalOutputTokens are one pair of
\* variables for all requests
PeerClosureShared(own, other) ==
    [buffer |-> other.buffer, totalOutputTokens |-> other.totalOutputTokens, res |-> own.res]

\* the variables the data handler of a request reads and writes: the buffer
\* and totalOutputTokens its own https.request callback declared, and its
\* own res; `other` are those of the other request
PeerClosure(own, other) ==
    [buffer |-> own.buffer, totalOutputTokens |-> own.totalOutputTokens, res |-> own.res]

\* proxyRes.on('data') of the second request
PeerData ==
    /\ peer.upstream = "responding"
    /\ \E n \in 1..(Len(WireOf(peer.script)) - peer.pos) :
        \* st: the handler's variables when it returns
        \E st \in {OnData(PeerClosure(peer, [buffer |-> buffer,
                                             totalOutputTokens |-> totalOutputTokens]),
                          SubSeq(WireOf(peer.script), peer.pos + 1, peer.pos + n))} :
           peer' = [peer EXCEPT !.pos = @ + n, !.buffer = st.buffer,
                                !.totalOutputTokens = st.totalOutputTokens,
                                !.res = st.res]
    /\ UNCHANGED <<variant, request, mode, outbound, upstream, script, pos, buffer,
                   totalOutputTokens, res, auth, reply>>

\* proxyRes.on('end') of the second request
PeerEnd ==
    /\ peer.upstream = "responding"
    /\ peer' = [peer EXCEPT !.upstream = "ended", !.res = OnEnd(@)]
    /\ UNCHANGED <<variant, request, mode, outbound, upstream, script, pos, buffer,
                   totalOutputTokens, res, auth, reply>>

\* proxyRes.on('error') of the second request
PeerResponseError ==
    /\ peer.upstream \in {"responding", "reset"}
    /\ peer' = [peer EXCEPT !.upstream = "aborted", !.res = OnResponseError(@)]
    /\ UNCHANGED <<variant, request, mode, outbound, upstream, script, pos, buffer,
                   totalOutputTokens, res, auth, reply>>

\* proxyReq.on('error') of the second request
PeerRequestError ==
    /\ peer.upstream \in {"requested", "responding"}
    /\ peer' = [peer EXCEPT !.upstream = (IF @ = "requested" THEN "failed" ELSE "reset"),
                            !.res = OnRequestError(@, TransportMessage)]
    /\ UNCHANGED <<variant, request, mode, outbound, upstream, script, pos, buffer,
                   totalOutputTokens, res, auth, reply>>

Next ==
    \/ PostMessages
    \/ StreamResponse
    \/ StreamData
    \/ StreamEnd
    \/ StreamResponseError
    \/ StreamRequestError

Spec == Init /\ [][Next]_vars

\* the upstream connection settles: its body ends or it fails
UpstreamSettles == StreamEnd \/ StreamResponseError \/ StreamRequestError

\* the streaming specification for an upstream connection that does not
\* stay open for ever.  Each action is the delivery of an event together
\* with the run of its handler, which the event loop runs to completion, so
\* fairness is asked of the deliveries only
SpecLive == Init /\ [][Next]_vars /\ WF_vars(UpstreamSettles)

-----------------------------------------------------------------------------
(* The cancellation specification: the streaming specification with a      *)
(* client that may close the inbound connection during the response.       *)

\* the client closes the inbound connection before the response is ended.
\* Node raises 'close' on req and res; the server registers no listener for
\* either (there is no req.on or res.on in server.js), so no code of the
\* server runs and the upstream request is left as it is
ClientClose ==
    /\ mode = "stream"
    /\ ~res.writableEnded
    /\ ~res.destroyed
    /\ res' = [res EXCEPT !.destroyed = TRUE]
    /\ UNCHANGED <<variant, request, mode, outbound, upstream, script, pos, buffer,
                   totalOutputTokens, auth, reply, peer>>

NextCancel ==
    \/ PostMessages
    \/ StreamResponse
    \/ StreamData
    \/ StreamEnd
    \/ StreamResponseError
    \/ StreamRequestError
    \/ ClientClose

SpecCancel == Init /\ [][NextCancel]_vars

-----------------------------------------------------------------------------
(* The non-streaming specification: one inbound POST /v1/messages with     *)
(* stream false, answered by upstream with each of Replies.                *)

NonStreamRequests ==
    {[BaseRequest EXCEPT !.model = m, !.messages = A(<<UserHi>>)] : m \in {"claude-x", ""}}

InitNon ==
    /\ variant \in {1, 2}
    /\ request \in NonStreamRequests
    /\ reply \in Replies
    /\ script = <<>>
    /\ mode = "none"
    /\ outbound = <<>>
    /\ upstream = "none"
    /\ pos = 0
    /\ buffer = ""
    /\ totalOutputTokens = 0
    /\ res = NewRes
    /\ auth = NoAuth
    /\ peer = NoPeer

NextNon ==
    \/ PostMessages
    \/ NonStreamResponse
    \/ NonStreamEnd
    \/ NonStreamRequestError
    \/ NonStreamAborted

SpecNon == InitNon /\ [][NextNon]_vars

-----------------------------------------------------------------------------
(* The concurrent specification: two streaming requests served by the same *)
(* process, their callbacks interleaved in every order.                    *)

StreamRequest(model) ==
    [BaseRequest EXCEPT !.model = model, !.stream = TRUE, !.messages = A(<<UserHi>>)]

\* the bodies upstream sends to the two requests
PairScripts == {<<"delta_a", "done">>, <<"delta_e9">>}

InitPair ==
    /\ variant \in {1, 2}
    /\ request = StreamRequest("claude-x")
    /\ script \in PairScripts
    /\ peer \in {[NoPeer EXCEPT !.request = StreamRequest("claude-y"), !.script = sc] :
                    sc \in PairScripts}
    /\ mode = "none"
    /\ outbound = <<>>
    /\ upstream = "none"
    /\ pos = 0
    /\ buffer = ""
    /\ totalOutputTokens = 0
    /\ res = NewRes
    /\ auth = NoAuth
    /\ reply = NoReply

NextPair ==
    \/ PostMessages
    \/ StreamResponse
    \/ StreamData
    \/ StreamEnd
    \/ StreamResponseError
    \/ StreamRequestError
    \/ PeerPostMessages
    \/ PeerResponse
    \/ PeerData
    \/ PeerEnd
    \/ PeerResponseError
    \/ PeerRequestError

SpecPair == InitPair /\ [][NextPair]_vars

-----------------------------------------------------------------------------
(* What the claims speak about.                                            *)

CountType(events, t) == Cardinality({i \in 1..Len(events) : events[i].type = t})

ClosingTypes == {"content_block_stop", "message_delta", "message_stop"}

\* the delta lines of a line sequence carry these texts, in order
RECURSIVE DeltaTexts(_)
DeltaTexts(lines) ==
    IF lines = <<>> THEN <<>>
    ELSE (IF DeltaTextOf(Head(lines)) # "" THEN <<DeltaTextOf(Head(lines))>> ELSE <<>>)
         \o DeltaTexts(Tail(lines))

\* index of the first sentinel line of the script, 0 when it has none
FirstDone ==
    IF \E k \in 1..Len(script) : script[k] = "done"
    THEN CHOOSE k \in 1..Len(script) :
            script[k] = "done" /\ \A j \in 1..(k - 1) : script[j] # "done"
    ELSE 0

\* the first sentinel line, newline included, has arrived
SentinelArrived ==
    FirstDone > 0 /\ pos >= Len(WireOf(SubSeq(script, 1, FirstDone)))

\* N delta lines with a non-empty text, then the sentinel, and nothing else
DeltasThenDone ==
    /\ Len(script) >= 1
    /\ script[Len(script)] = "done"
    /\ \A k \in 1..(Len(script) - 1) : script[k] \in {"delta_a", "delta_e9"}

\* the frames the client is to receive for N delta lines and the sentinel
ExpectedFrames(model, texts) ==
    <<MessageStartEvent(model), ContentBlockStartEvent>>
    \o [i \in 1..Len(texts) |-> ContentBlockDeltaEvent(texts[i])]
    \o <<ContentBlockStopEvent, MessageDeltaEvent(Len(texts)), MessageStopEvent>>

\* the whole body has arrived and the connection has not failed
BodyArrived == mode = "stream" /\ upstream \in {"responding", "ended"} /\ pos = Len(wire)

\* C1 (as claimed): N newline-terminated delta lines followed by the
\* sentinel give the client exactly message_start, content_block_start, the
\* N deltas with the upstream texts in order, content_block_stop,
\* message_delta with output_tokens = N, message_stop, and a closed
\* connection.
C1_ExactSequence ==
    (BodyArrived /\ DeltasThenDone)
        => /\ res.events = ExpectedFrames(res.events[1].model,
                                          DeltaTexts(SubSeq(script, 1, Len(script) - 1)))
           /\ res.writableEnded

\* the frames the data handler emits when the whole body is one chunk
OneChunkFrames ==
    OnData([buffer |-> "", totalOutputTokens |-> 0,
            res |-> StreamOpen(NewRes, variant, request)], wire).res.events

\* C2 (as claimed): however a body that ends with the sentinel is cut into
\* chunks, the client receives the frames it receives when the body arrives
\* as one chunk.
C2_ChunkIndependent ==
    (BodyArrived /\ script # <<>> /\ script[Len(script)] = "done")
        => res.events = OneChunkFrames

\* C3: the closing triple content_block_stop, message_delta, message_stop
\* reaches the client at most once, in that order and as the last three
\* frames (so no delta follows it), and exactly once as soon as the first
\* sentinel line has been processed, whatever upstream sends afterwards.
C3_ClosingOnce ==
    mode = "stream" =>
        /\ \A t \in ClosingTypes : CountType(res.events, t) <= 1
        /\ \A i \in 1..Len(res.events) :
              res.events[i].type = "content_block_stop"
                  => /\ Len(res.events) = i + 2
                     /\ res.events[i + 1].type = "message_delta"
                     /\ res.events[i + 2].type = "message_stop"
        /\ \A i \in 1..Len(res.events) :
              res.events[i].type \in {"message_delta", "message_stop"}
                  => CountType(res.events, "content_block_stop") = 1
        /\ SentinelArrived => CountType(res.events, "content_block_stop") = 1

\* two sentinel lines and a delta between them have all been processed
C3_Witness ==
    /\ mode = "stream"
    /\ Len(script) >= 3
    /\ FirstDone > 0 /\ FirstDone < Len(script)
    /\ pos = Len(wire)
    /\ res.writeAfterEnd > 0
    /\ CountType(res.events, "content_block_stop") = 1

\* C4: message_start and content_block_start are the first two frames of
\* every streaming response, they are written before https.request is
\* called (so before any upstream byte), message_start has empty content,
\* null stop_reason and zero usage, and neither frame occurs again.
C4_OpeningFirst ==
    mode = "stream" =>
        /\ Len(res.events) >= 2
        /\ res.events[1].type = "message_start"
        /\ res.events[1].content = <<>>
        /\ res.events[1].stop_reason = "null"
        /\ res.events[1].input_tokens = 0 /\ res.events[1].output_tokens = 0
        /\ res.events[2] = ContentBlockStartEvent
        /\ \A i \in 3..Len(res.events) :
              res.events[i].type \notin {"message_start", "content_block_start"}
        /\ Len(outbound) >= 1
        /\ outbound[1].framesBefore = 2

\* deltas, the closing triple and, in another run, an error frame follow the
\* opening pair
C4_Witness ==
    /\ mode = "stream"
    /\ upstream = "reset"
    /\ CountType(res.events, "content_block_delta") >= 1
    /\ CountType(res.events, "error") = 1

\* the closing triple has been written to the client
ClosingEmitted == CountType(res.events, "content_block_stop") > 0

\* what C5 promises the client after a transport failure
ErrorReported ==
    /\ CountType(res.events, "error") = 1
    /\ res.events[Len(res.events)].type = "error"
    /\ res.events[Len(res.events)].error_type = "api_error"
    /\ res.events[Len(res.events)].message = TransportMessage
    /\ res.writableEnded
    /\ \A t \in ClosingTypes : CountType(res.events, t) = 0
    /\ Len(outbound) = 1

\* C5 (as claimed): after a transport failure of the upstream connection
\* that comes before the closing triple (reported on the request, or on the
\* response while its body is arriving), the client has received exactly one
\* error frame, of type api_error with the transport failure message, its
\* connection is closed, no closing frame was sent, and one upstream request
\* was made.
C5_TransportError ==
    (mode = "stream" /\ upstream \in {"failed", "reset", "aborted"} /\ ~ClosingEmitted)
        => ErrorReported

\* the part of C5 the code keeps: a failure reported on the request
C5_RequestErrorReported ==
    (mode = "stream" /\ upstream \in {"failed", "reset"} /\ ~ClosingEmitted)
        => ErrorReported

\* C6: when upstream ends without a sentinel line having been processed,
\* the client connection is closed and the client has received no closing
\* frame and no error frame.
C6_EofWithoutSentinel ==
    (mode = "stream" /\ upstream = "ended" /\ ~SentinelArrived)
        => /\ res.writableEnded
           /\ \A t \in ClosingTypes \cup {"error"} : CountType(res.events, t) = 0

\* upstream ends after a delta line, with no sentinel
C6_Witness ==
    /\ mode = "stream"
    /\ upstream = "ended"
    /\ FirstDone = 0
    /\ pos = Len(wire)
    /\ CountType(res.events, "content_block_delta") >= 1
    /\ res.writableEnded

-----------------------------------------------------------------------------
(* The request specification: the route handler applied to the requests    *)
(* of ReqRequests, up to the outbound request.                             *)

MaxMsgs == 2       \* messages of a request

T(text) == [type |-> "text", text |-> text]

ImageData ==
    [type |-> "image",
     source |-> [type |-> "base64", media_type |-> "image/png", data |-> "QUJD"]]

ImageRemote ==
    [type |-> "image", source |-> [type |-> "url", url |-> "https://example.com/a.png"]]

ToolUse == [type |-> "tool_use", id |-> "toolu_1", name |-> "search", input |-> [q |-> "x"]]

ToolResult == [type |-> "tool_result", tool_use_id |-> "toolu_1", content |-> S("ok")]

Contents ==
    {S("hi"), A(<<>>), A(<<T("a")>>), A(<<T("a"), T("b")>>), A(<<T("a"), ImageData>>),
     A(<<ImageRemote>>), A(<<ToolUse>>), A(<<ToolResult, T("b")>>)}

Messages == {[role |-> r, content |-> c] : r \in {"user", "assistant"}, c \in Contents}

Systems == {Undefined, S("be terse"), A(<<T("s1"), ImageRemote, T("s2")>>)}

\* max_tokens, temperature and top_p of a request: missing (or null), zero,
\* and another number
Numbers == {None, Some(0), Some(2)}

\* requests that differ in their numeric parameters
NumericRequests ==
    {[BaseRequest EXCEPT !.messages = A(<<UserHi>>), !.max_tokens = mt,
                         !.temperature = t, !.top_p = tp] :
        mt \in Numbers, t \in Numbers, tp \in Numbers}

ReqRequests ==
    {[BaseRequest EXCEPT !.model = m, !.system = sy, !.messages = A(ms), !.stream = st] :
        m \in {"claude-x", ""}, sy \in Systems, ms \in SeqsUpTo(Messages, MaxMsgs),
        st \in BOOLEAN}
    \cup NumericRequests

InitReq ==
    /\ variant \in {1, 2}
    /\ request \in ReqRequests
    /\ script = <<>>
    /\ mode = "none"
    /\ outbound = <<>>
    /\ upstream = "none"
    /\ pos = 0
    /\ buffer = ""
    /\ totalOutputTokens = 0
    /\ res = NewRes
    /\ auth = NoAuth
    /\ reply = NoReply
    /\ peer = NoPeer

NextReq == PostMessages

SpecReq == InitReq /\ [][NextReq]_vars

\* the request sent upstream
Sent == outbound[1].body

\* 1 when the target message list starts with the system message
SystemCount == IF Truthy(request.system) THEN 1 ELSE 0

\* C7 (as claimed): the model field returned to the client equals the model
\* name the client sent, never the backend model identifier.  Here for the
\* message_start frame of a stream.
C7_ModelEcho ==
    (mode = "stream" /\ request.model # "")
        => /\ res.events[1].type = "message_start"
           /\ res.events[1].model = request.model

\* C8: whatever model name the request carries, none included, the request
\* sent upstream carries the backend model identifier of the running
\* revision.
C8_FixedModel ==
    mode # "none" =>
        /\ Len(outbound) = 1
        /\ variant = 1 => Sent.model = "anthropic/claude-sonnet-4-20250514"
        /\ variant = 2 => Sent.model = "anthropic/claude-3.5-sonnet"

\* requests with and without a model name have been translated
C8_Witness == mode # "none" /\ request.model = "" /\ Len(request.messages.items) = 2

\* the texts of blocks 1..k joined by newlines, from the left
RECURSIVE TextsJoined(_, _)
TextsJoined(blocks, k) ==
    IF k = 0 THEN ""
    ELSE IF k = 1 THEN blocks[1].text
    ELSE TextsJoined(blocks, k - 1) \o "\n" \o blocks[k].text

\* C9: a source message whose content is a list of text blocks only becomes
\* a target message whose content is one string, the texts joined by
\* newlines in block order (the text itself for a single block); a list with
\* an image block stays a list of parts.
C9_TextCollapse ==
    mode # "none" =>
        \A i \in 1..Len(request.messages.items) :
            LET src == request.messages.items[i].content
                tgt == Sent.messages[i + Len(Sent.messages) - Len(request.messages.items)].content
            IN src.kind = "array" =>
                /\ (\A k \in 1..Len(src.items) : src.items[k].type = "text")
                      => /\ tgt.kind = "string"
                         /\ tgt.text = TextsJoined(src.items, Len(src.items))
                /\ (\E k \in 1..Len(src.items) : src.items[k].type = "image")
                      => /\ tgt.kind = "array"
                         /\ Len(tgt.items) = Len(src.items)
                         /\ \E k \in 1..Len(tgt.items) : tgt.items[k].type = "image_url"

\* a two-block text list and a list with an image have been translated
C9_Witness ==
    /\ mode # "none"
    /\ Len(request.messages.items) = 2
    /\ request.messages.items[1].content = A(<<T("a"), T("b")>>)
    /\ request.messages.items[2].content = A(<<T("a"), ImageData>>)
    /\ Sent.messages[Len(Sent.messages) - 1].content = S("a\nb")

\* C10: after the optional leading system message the target list has one
\* message per source message, in the same order, with the same role, and
\* with the same string when the source content is a string.
C10_OrderAndRoles ==
    mode # "none" =>
        /\ Len(Sent.messages) = SystemCount + Len(request.messages.items)
        /\ SystemCount = 1 => Sent.messages[1].role = "system"
        /\ \A i \in 1..Len(request.messages.items) :
              /\ Sent.messages[SystemCount + i].role = request.messages.items[i].role
              /\ request.messages.items[i].content.kind = "string"
                    => Sent.messages[SystemCount + i].content
                         = request.messages.items[i].content

\* a system prompt, then an assistant message and a user message
C10_Witness ==
    /\ mode # "none"
    /\ SystemCount = 1
    /\ Len(request.messages.items) = 2
    /\ request.messages.items[1].role = "assistant"
    /\ request.messages.items[2] = UserHi
    /\ Len(Sent.messages) = 3

\* C17: max_tokens of the outbound request is the client's value when it
\* is set and not zero and 8192 otherwise; temperature is the client's value
\* whenever it is present, 0 included, and 1 only when it is absent or
\* null; top_p is the client's value, absent when the client sent none.
C17_NumericDefaults ==
    mode # "none" =>
        /\ Sent.max_tokens = (IF request.max_tokens \in {None, Some(0)}
                              THEN 8192 ELSE request.max_tokens.v)
        /\ Sent.temperature = (IF request.temperature = None
                               THEN 1 ELSE request.temperature.v)
        /\ Sent.top_p = request.top_p

\* a request with max_tokens 0, temperature 0 and no top_p was translated
C17_Witness ==
    /\ mode # "none"
    /\ request.max_tokens = Some(0)
    /\ request.temperature = Some(0)
    /\ request.top_p = None
    /\ Sent.max_tokens = 8192
    /\ Sent.temperature = 0
    /\ Sent.top_p = None

\* upstream answered the streaming request with a JSON error object, which
\* has arrived whole, and closed the body
ErrorObjectAnswered ==
    /\ mode = "stream"
    /\ script = <<"error_object">>
    /\ upstream = "ended"
    /\ pos = Len(wire)

\* C15: in stream mode every api_error condition is reported as an error
\* event: when upstream answers a streaming request with an error object
\* instead of an event stream, the client receives an error event before
\* its connection is closed.
C15_ErrorObjectReported ==
    ErrorObjectAnswered => (res.writableEnded /\ CountType(res.events, "error") = 1)

\* what the code does with the error object: the stream is closed after the
\* two opening frames
C15_ErrorObjectDropped ==
    ErrorObjectAnswered => (res.writableEnded /\ Len(res.events) = 2)

\* the lines of the script that have arrived whole, newline included
CompleteLines == Cardinality({k \in 1..Len(script) : Len(WireOf(SubSeq(script, 1, k))) <= pos})

\* the complete lines that come before the first sentinel
LinesBeforeSentinel ==
    IF FirstDone > 0 /\ FirstDone <= CompleteLines
    THEN SubSeq(script, 1, FirstDone - 1)
    ELSE SubSeq(script, 1, CompleteLines)

IsDelta(ev) == ev.type = "content_block_delta"

\* the content_block_delta events the client has received, in order
DeltaEvents == SelectSeq(res.events, IsDelta)

\* the delta events are those of the complete lines before the sentinel: one
\* per data line that parses and carries a text, with that text and index 0;
\* until the sentinel the counter is their number
DeltasMatchLines ==
    /\ [i \in 1..Len(DeltaEvents) |-> DeltaEvents[i].text] = DeltaTexts(LinesBeforeSentinel)
    /\ \A i \in 1..Len(DeltaEvents) : DeltaEvents[i].index = 0
    /\ ~SentinelArrived => totalOutputTokens = Len(DeltaEvents)

\* C20: for any sequence of complete upstream lines before the sentinel,
\* the content_block_delta events are exactly, in order, one per line that
\* starts with 'data: ', parses as JSON and carries a non-empty text delta,
\* each with that text unmodified and index 0; a line without the prefix, a
\* data line that does not parse and a data line without a text delta emit
\* nothing, leave the counter unchanged and do not stop later lines.
C20_DeltasPerLine == (mode = "stream" /\ upstream # "requested") => DeltasMatchLines

\* C20 holds when no text has a multi-byte character
C20_AsciiDeltas ==
    (/\ mode = "stream"
     /\ upstream # "requested"
     /\ \A k \in 1..Len(script) : script[k] # "delta_e9")
        => DeltasMatchLines

-----------------------------------------------------------------------------
(* The gateway specification: authentication and both modes.  One inbound  *)
(* POST /v1/messages with each configuration and credential of AuthCases,  *)
(* streaming or not, answered by upstream with a short body.               *)

Secret == "s3cret"

\* the secret is configured or not; x-api-key is missing, the secret,
\* another key, or the secret with 'Bearer ' inside it; authorization is
\* missing, or a bearer credential with the secret or with another key
AuthCases ==
    [MOCK_API_KEY : {"", Secret},
     x_api_key : {Undefined, S(Secret), S("wrong"), S("s3Bearer cret")},
     authorization : {Undefined, S("Bearer " \o Secret), S("Bearer wrong")}]

GateScripts == {<<"delta_a", "done">>, <<"delta_a">>, <<"error_object">>}

GateReplies ==
    {[statusCode |-> 200,
      body |-> JsonBody(Completion(S("gen-1"),
                                   A(<<Choice(ChatMessage(S("ok"), Undefined), S("stop"))>>),
                                   UsageThreeOne))],
     [statusCode |-> 429,
      body |-> JsonBody([id |-> Undefined, choices |-> Undefined, usage |-> Undefined,
                         error |-> [kind |-> "object", message |-> S("boom")]])],
     [statusCode |-> 500, body |-> NotJsonBody]}

InitGate ==
    /\ variant \in {1, 2}
    /\ auth \in AuthCases
    /\ request \in StreamRequests
    /\ IF request.stream
       THEN script \in GateScripts /\ reply = NoReply
       ELSE script = <<>> /\ reply \in GateReplies
    /\ mode = "none"
    /\ outbound = <<>>
    /\ upstream = "none"
    /\ pos = 0
    /\ buffer = ""
    /\ totalOutputTokens = 0
    /\ res = NewRes
    /\ peer = NoPeer

NextGate ==
    \/ PostMessages
    \/ StreamResponse
    \/ StreamData
    \/ StreamEnd
    \/ StreamResponseError
    \/ StreamRequestError
    \/ NonStreamResponse
    \/ NonStreamEnd
    \/ NonStreamRequestError
    \/ NonStreamAborted

SpecGate == InitGate /\ [][NextGate]_vars

\* C16: each inbound POST /v1/messages that passes authentication opens
\* exactly one outbound connection, in stream and in non-stream mode, and
\* no failure (transport error, upstream error object, parse failure, EOF
\* without sentinel) causes a second outbound request.
C16_OneOutbound ==
    /\ mode \in {"stream", "nonstream"} => Len(outbound) = 1
    /\ mode \in {"none", "rejected"} => Len(outbound) = 0

\* a streaming request has failed, or has ended without a sentinel, after
\* its one outbound request
C16_Witness ==
    /\ Len(outbound) = 1
    /\ \/ mode = "stream" /\ upstream \in {"failed", "reset", "aborted"}
       \/ mode = "stream" /\ upstream = "ended" /\ ~SentinelArrived

\* the credential of a request: the x-api-key header when it is sent, else
\* the authorization header, in either case without the 'Bearer ' scheme in
\* front of it; Undefined when no header is sent
Credential(a) ==
    LET h == IF Truthy(a.x_api_key) THEN a.x_api_key ELSE a.authorization IN
    IF h.kind = "undefined" THEN Undefined
    ELSE IF StartsWith(h.text, "Bearer ") THEN S(Slice(h.text, 7))
    ELSE h

\* the request was answered 401 and nothing was translated or sent upstream
Rejected401 ==
    /\ mode = "rejected"
    /\ outbound = <<>>
    /\ upstream = "none"
    /\ Len(res.events) = 1
    /\ res.events[1].status = 401
    /\ res.events[1].body = ErrorBody("authentication_error", "Invalid API key")

\* C18: when a shared secret is configured, a request whose credential is
\* missing or differs from the secret is answered with status 401 and an
\* authentication_error body, with no translation and no outbound
\* connection; when no secret is configured every request proceeds.
C18_AuthGate ==
    mode # "none" =>
        IF auth.MOCK_API_KEY # "" /\ Credential(auth) # S(auth.MOCK_API_KEY)
        THEN Rejected401
        ELSE mode \in {"stream", "nonstream"} /\ Len(outbound) = 1

\* C18 holds for the credentials that have 'Bearer ' nowhere but in front
C18_PrefixedCredentials ==
    (/\ mode # "none"
     /\ auth.x_api_key # S("s3Bearer cret"))
        => IF auth.MOCK_API_KEY # "" /\ Credential(auth) # S(auth.MOCK_API_KEY)
           THEN Rejected401
           ELSE mode \in {"stream", "nonstream"} /\ Len(outbound) = 1

-----------------------------------------------------------------------------
(* Claims about concurrent requests, checked under SpecPair.               *)

\* the first request as a stream record
Main ==
    [request |-> request, script |-> script, upstream |-> upstream, pos |-> pos,
     buffer |-> buffer, totalOutputTokens |-> totalOutputTokens, res |-> res]

\* the second request as a stream record
Second ==
    [request |-> peer.request, script |-> peer.script, upstream |-> peer.upstream,
     pos |-> peer.pos, buffer |-> peer.buffer,
     totalOutputTokens |-> peer.totalOutputTokens, res |-> peer.res]

\* q2 is what one callback of a stream that is served alone makes of q: the
\* opening, the response callback, a chunk, the end, an error
AloneStep(q, q2) ==
    \/ /\ q.upstream = "none"
       /\ q2 = [q EXCEPT !.upstream = "requested",
                         !.res = StreamOpen(q.res, variant, q.request)]
    \/ /\ q.upstream = "requested"
       /\ q2 = [q EXCEPT !.upstream = "responding", !.buffer = "",
                         !.totalOutputTokens = 0]
    \/ /\ q.upstream = "responding"
       /\ \E n \in 1..(Len(WireOf(q.script)) - q.pos) :
            LET st == OnData([buffer |-> q.buffer,
                              totalOutputTokens |-> q.totalOutputTokens, res |-> q.res],
                             SubSeq(WireOf(q.script), q.pos + 1, q.pos + n))
            IN q2 = [q EXCEPT !.pos = q.pos + n, !.buffer = st.buffer,
                              !.totalOutputTokens = st.totalOutputTokens,
                              !.res = st.res]
    \/ /\ q.upstream = "responding"
       /\ q2 = [q EXCEPT !.upstream = "ended", !.res = OnEnd(q.res)]
    \/ /\ q.upstream \in {"responding", "reset"}
       /\ q2 = [q EXCEPT !.upstream = "aborted", !.res = OnResponseError(q.res)]
    \/ /\ q.upstream \in {"requested", "responding"}
       /\ q2 = [q EXCEPT !.upstream = (IF q.upstream = "requested" THEN "failed"
                                       ELSE "reset"),
                         !.res = OnRequestError(q.res, TransportMessage)]

\* C19: concurrent streaming requests are independent: in every
\* interleaving of the chunk, end and error callbacks of two streaming
\* responses, a callback of one request leaves the buffer, the counter and
\* the events of the other untouched and changes its own exactly as it would
\* if its request were the only one, so each client receives the event
\* sequence, output_tokens included, it would receive alone.
C19_Independent ==
    [][/\ Main' = Main \/ Second' = Second
       /\ Main' # Main => AloneStep(Main, Main')
       /\ Second' # Second => AloneStep(Second, Second')]_vars

\* both requests hold a partial line of their own at the same time
C19_Witness ==
    /\ upstream = "responding"
    /\ peer.upstream = "responding"
    /\ buffer # ""
    /\ peer.buffer # ""
    /\ buffer # peer.buffer
    /\ totalOutputTokens # peer.totalOutputTokens

-----------------------------------------------------------------------------
(* Claims about the non-streaming response, checked under SpecNon.         *)

\* upstream answered with a completion and the 'end' handler has run
CompletionHandled ==
    /\ mode = "nonstream"
    /\ upstream = "ended"
    /\ reply.body.json
    /\ reply.body.value.error.kind = "undefined"

\* the tool calls of the first choice of the completion
ReplyToolCalls == ToolCallList(ChoiceMessage(FirstChoice(reply.body.value)))

ReplyFinishReason == FinishReason(FirstChoice(reply.body.value))

\* the client received exactly one HTTP response, with status 200
Answered200 == Len(res.events) = 1 /\ res.events[1].status = 200

\* the body of the one HTTP response the client received
ClientBody == res.events[1].body

IsToolUse(b) == b.type = "tool_use"

\* the input a tool_use block is to carry: the object the arguments string
\* denotes, the empty object for arguments that are missing, empty or not
\* JSON
ClaimedInput(toolCall) ==
    IF toolCall.function.arguments = S("{\"q\":1}")
    THEN Obj(<<[key |-> "q", value |-> "1"]>>)
    ELSE Obj(<<>>)

ArgumentsParse(toolCall) == toolCall.function.arguments # S("{\"q\":")

\* one tool_use block per tool call, in order, with its id, name and input
ToolUseMatches ==
    LET uses == SelectSeq(ClientBody.content, IsToolUse) IN
    /\ Len(uses) = Len(ReplyToolCalls)
    /\ \A i \in 1..Len(uses) :
        /\ uses[i].id = ReplyToolCalls[i].id
        /\ uses[i].name = ReplyToolCalls[i].function.name
        /\ uses[i].input = ClaimedInput(ReplyToolCalls[i])

\* C11: for every upstream response whose first choice has finish_reason
\* "tool_calls", the response to the client has exactly one tool_use block
\* per tool call, in the same order, each with the call's id, function name
\* and parsed arguments, and stop_reason "tool_use".
C11_ToolCalls ==
    (CompletionHandled /\ ReplyFinishReason = S("tool_calls"))
        => (Answered200 /\ ToolUseMatches /\ ClientBody.stop_reason = "tool_use")

\* C11 holds for the responses all of whose arguments strings parse
C11_ParseableToolCalls ==
    (/\ CompletionHandled
     /\ ReplyFinishReason = S("tool_calls")
     /\ \A i \in 1..Len(ReplyToolCalls) : ArgumentsParse(ReplyToolCalls[i]))
        => (Answered200 /\ ToolUseMatches /\ ClientBody.stop_reason = "tool_use")

\* C12: for every upstream response with a tool call whose arguments string
\* is not valid JSON, the translation does not fail: the client receives a
\* 200 response, that tool_use block has the empty object as input and the
\* other blocks are produced normally.
C12_UnparsableArguments ==
    (/\ CompletionHandled
     /\ \E i \in 1..Len(ReplyToolCalls) : ~ArgumentsParse(ReplyToolCalls[i]))
        => (/\ Answered200
            /\ ToolUseMatches
            /\ Len(res.events[1].body.content) =
                   Len(ReplyToolCalls)
                   + (IF Truthy(MessageContent(ChoiceMessage(FirstChoice(reply.body.value))))
                      THEN 1 ELSE 0))

\* the stop_reason each finish_reason is to give
ClaimedStopReason(f) ==
    CASE f = S("stop") -> "end_turn"
      [] f = S("tool_calls") -> "tool_use"
      [] f = S("length") -> "max_tokens"
      [] OTHER -> "end_turn"

\* C13: the stop_reason of every non-stream response to the client is the
\* image of the first choice's finish_reason: stop gives end_turn,
\* tool_calls gives tool_use, length gives max_tokens, every other value,
\* an absent finish_reason and an absent choices list give end_turn; it is
\* never null, and stop_sequence is always null.
C13_StopReason ==
    (CompletionHandled /\ Answered200)
        => (/\ ClientBody.type = "message"
            /\ ClientBody.stop_reason = ClaimedStopReason(ReplyFinishReason)
            /\ ClientBody.stop_reason # "null"
            /\ ClientBody.stop_sequence = "null")

\* a completion that stopped at the token limit was answered with max_tokens
C13_Witness ==
    /\ CompletionHandled
    /\ ReplyFinishReason = S("length")
    /\ Answered200
    /\ ClientBody.stop_reason = "max_tokens"

\* an error outcome of a non-streaming request: a transport failure, an
\* error object from upstream, a body that is not JSON
ErrorOutcome ==
    /\ mode = "nonstream"
    /\ \/ upstream \in {"failed", "reset", "aborted"}
       \/ upstream = "ended" /\ ~reply.body.json
       \/ upstream = "ended" /\ reply.body.json /\ reply.body.value.error.kind # "undefined"

ErrorShaped(body) ==
    /\ body.type = "error"
    /\ body.error.type = "api_error"

\* C14: in non-stream mode every error outcome is answered with a body
\* {type:"error", error:{type:"api_error", message}} and a status other
\* than 200; an upstream error object that came with status 200 is not
\* passed on with status 200.
C14_ErrorStatus ==
    ErrorOutcome
        => (/\ Len(res.events) = 1
            /\ ErrorShaped(res.events[1].body)
            /\ res.events[1].status # 200)

\* what does hold: a failure reported on the request and a body that is not
\* JSON are answered with status 500 and an api_error body
C14_Status500 ==
    (/\ mode = "nonstream"
     /\ \/ upstream \in {"failed", "reset"}
        \/ upstream = "ended" /\ ~reply.body.json)
        => (/\ Len(res.events) = 1
            /\ ErrorShaped(res.events[1].body)
            /\ res.events[1].status = 500)

-----------------------------------------------------------------------------
(* Claims about the output-token counter, checked under Spec.              *)

\* the content_block_delta events among the first n frames of the client
DeltasBefore(n) == CountType(SubSeq(res.events, 1, n), "content_block_delta")

\* every message_delta the client received carries the number of deltas
\* emitted before it, stop_reason end_turn and stop_sequence null
MessageDeltaCarriesCounter ==
    \A i \in 1..Len(res.events) :
        res.events[i].type = "message_delta"
            => /\ res.events[i].output_tokens = DeltasBefore(i - 1)
               /\ res.events[i].stop_reason = "end_turn"
               /\ res.events[i].stop_sequence = "null"

\* C21: in every reachable state of a streaming response the output-token
\* counter equals the number of content_block_delta events emitted so far
\* on that stream, and it never decreases; the message_delta event, when
\* emitted, carries output_tokens equal to that counter, stop_reason
\* end_turn and stop_sequence null, whatever finish_reason upstream sent.
C21_TokenCounter ==
    /\ [](mode = "stream"
            => (totalOutputTokens = Len(DeltaEvents) /\ MessageDeltaCarriesCounter))
    /\ [][totalOutputTokens' >= totalOutputTokens]_vars

\* what does hold: the counter is the number of deltas emitted for as long
\* as no write was attempted on the closed response, it is never below that
\* number, it never decreases, and message_delta is as claimed
C21_CounterWhileOpen ==
    /\ [](mode = "stream"
            => /\ res.writeAfterEnd = 0 => totalOutputTokens = Len(DeltaEvents)
               /\ totalOutputTokens >= Len(DeltaEvents)
               /\ MessageDeltaCarriesCounter)
    /\ [][totalOutputTokens' >= totalOutputTokens]_vars

-----------------------------------------------------------------------------
(* Claims about the content blocks of the non-streaming response, checked  *)
(* under SpecNon.                                                          *)

\* the content of the first choice's message of the completion
ReplyContent == MessageContent(ChoiceMessage(FirstChoice(reply.body.value)))

IsText(b) == b.type = "text"

\* C22: every non-stream SourceResponse has at least one content block: a
\* text block with the first choice's message content is present exactly
\* when that content is non-empty, it comes before all tool_use blocks, and
\* when there is neither text nor any tool call the content is a single
\* text block with the empty string.
C22_ContentBlocks ==
    (CompletionHandled /\ Answered200)
        => LET blocks == ClientBody.content IN
           /\ Len(blocks) >= 1
           /\ Truthy(ReplyContent)
                => /\ blocks[1] = [type |-> "text", text |-> ReplyContent.text]
                   /\ \A i \in 2..Len(blocks) : IsToolUse(blocks[i])
                   /\ Len(blocks) = 1 + Len(ReplyToolCalls)
           /\ (~Truthy(ReplyContent) /\ ReplyToolCalls # <<>>)
                => /\ \A i \in 1..Len(blocks) : IsToolUse(blocks[i])
                   /\ Len(blocks) = Len(ReplyToolCalls)
           /\ (~Truthy(ReplyContent) /\ ReplyToolCalls = <<>>)
                => blocks = <<[type |-> "text", text |-> ""]>>

\* a completion with a text and two tool calls has been answered: the text
\* block, then the two tool_use blocks
C22_Witness ==
    /\ CompletionHandled
    /\ Answered200
    /\ ReplyContent = S("ok")
    /\ Len(ReplyToolCalls) = 2
    /\ IsText(ClientBody.content[1])
    /\ IsToolUse(ClientBody.content[2])
    /\ IsToolUse(ClientBody.content[3])

\* a completion with an empty content and an empty tool call list has been
\* answered with the single empty text block
C22_EmptyAnswered ==
    /\ CompletionHandled
    /\ Answered200
    /\ ReplyContent = S("")
    /\ MessageToolCalls(ChoiceMessage(FirstChoice(reply.body.value))) = A(<<>>)
    /\ ClientBody.content = <<[type |-> "text", text |-> ""]>>

-----------------------------------------------------------------------------
(* Claims about the number of responses to a non-streaming request,        *)
(* checked under SpecNon.                                                  *)

\* the non-streaming request is over: upstream answered or failed
NonStreamOver == mode = "nonstream" /\ upstream \in {"ended", "failed", "reset", "aborted"}

\* C23: in non-stream mode exactly one HTTP response is written to the
\* client per request on every path: when the upstream body cannot be
\* parsed or the upstream connection fails, the error response written in
\* handleNonStreamingResponse is the only one, and the catch of the route
\* handler does not attempt a second response for the same request.
C23_OneResponse ==
    NonStreamOver
        => /\ Len(res.events) = 1
           /\ res.endCalls = 1
           /\ res.writeAfterEnd = 0

\* what does hold: the client never receives two responses, and a body that
\* parses and translates is answered once, with no second attempt
C23_OneResponseOnSuccess ==
    /\ mode = "nonstream" => Len(res.events) <= 1
    /\ (/\ mode = "nonstream"
        /\ upstream = "ended"
        /\ reply.body.json
        /\ \A i \in 1..Len(ReplyToolCalls) : ArgumentsParse(ReplyToolCalls[i]))
          => (Len(res.events) = 1 /\ res.endCalls = 1 /\ res.writeAfterEnd = 0)

-----------------------------------------------------------------------------
(* Claims about the closed client connection of a streaming response,      *)
(* checked under Spec.                                                     *)

\* C24: in a streaming response, once the client connection has been closed
\* (after the closing triple, after an error event, or after upstream EOF),
\* no further event is written to it and it is not closed a second time by
\* any later upstream callback: a data chunk after the sentinel, an
\* upstream response error, a transport error on the request.
C24_NoUseAfterClose ==
    mode = "stream" => (res.writeAfterEnd = 0 /\ res.endCalls <= 1)

\* what does hold: the 'end' handler leaves a closed response alone, and no
\* frame reaches the client after the close
C24_EndHandlerGuarded ==
    [][/\ (upstream = "responding" /\ upstream' = "ended" /\ res.writableEnded)
            => res' = res
       /\ res.writableEnded => res'.events = res.events]_vars

-----------------------------------------------------------------------------
(* Claims about the end of the upstream body, checked under Spec.          *)

\* the 'end' handler runs in this step
EndDelivered == mode = "stream" /\ upstream = "responding" /\ upstream' = "ended"

\* C26: at upstream EOF the text still held in the line buffer (a final
\* line with no newline after it) is discarded without being processed: it
\* produces no event, even when it is a complete delta line or the sentinel
\* itself, so a sentinel delivered without a trailing newline ends the
\* stream without the closing triple.
C26_TailDiscarded ==
    /\ [][EndDelivered => (res'.events = res.events /\ res'.writableEnded)]_vars
    /\ [](mode = "stream" /\ upstream = "ended" /\ buffer # ""
            => /\ Len(DeltaEvents) = Len(DeltaTexts(LinesBeforeSentinel))
               /\ ClosingEmitted <=> SentinelArrived)

\* upstream ended after "data: [DONE]" with no newline: the sentinel is in
\* the buffer, the connection is closed and no closing frame was sent
C26_Witness ==
    /\ mode = "stream"
    /\ upstream = "ended"
    /\ script = <<"delta_a", "done">>
    /\ pos = Len(wire) - 1
    /\ buffer = DataPrefix \o DoneText
    /\ res.writableEnded
    /\ CountType(res.events, "content_block_delta") = 1
    /\ \A t \in ClosingTypes : CountType(res.events, t) = 0

\* upstream ended after a delta line with no newline: no delta was emitted
C26_DeltaDiscarded ==
    /\ mode = "stream"
    /\ upstream = "ended"
    /\ script = <<"delta_a">>
    /\ pos = Len(wire) - 1
    /\ buffer = DataPrefix \o DeltaOpen \o "a" \o DeltaClose
    /\ res.writableEnded
    /\ Len(res.events) = 2

-----------------------------------------------------------------------------
(* Claims about termination, checked under SpecLive.                       *)

\* C25: every streaming response eventually terminates: when the upstream
\* connection eventually delivers the sentinel, ends, or fails, the client
\* connection is eventually closed, and it is closed in each of the three
\* cases.
C25_Terminates ==
    /\ (mode = "stream") ~> res.writableEnded
    /\ []((mode = "stream" /\ SentinelArrived) => res.writableEnded)
    /\ []((mode = "stream" /\ upstream = "ended") => res.writableEnded)
    /\ []((mode = "stream" /\ upstream \in {"failed", "reset", "aborted"})
            => res.writableEnded)

\* the upstream response failed while a delta line was arriving, no
\* sentinel and no transport error on the request: the client connection
\* was closed by the 'error' handler of the response
C25_Witness ==
    /\ mode = "stream"
    /\ upstream = "aborted"
    /\ script = <<"delta_a", "done">>
    /\ pos < Len(wire)
    /\ ~ClosingEmitted
    /\ CountType(res.events, "error") = 0
    /\ res.writableEnded
    /\ res.endCalls = 1

-----------------------------------------------------------------------------
(* Claims about cancellation, checked under SpecCancel.                    *)

\* the upstream connection of the request is open
UpstreamOpen == upstream \in {"requested", "responding"}

\* C27: if the inbound client disconnects during a streaming response,
\* before the closing sequence has been emitted, the outbound upstream
\* connection of that request is aborted, so that no upstream connection
\* stays open after its client has gone.
C27_CancelUpstream ==
    (mode = "stream" /\ res.destroyed /\ ~ClosingEmitted) => ~UpstreamOpen

\* what the code does: after the client has gone nothing more reaches it
\* and no further upstream request is made
C27_NothingAfterDisconnect ==
    [][res.destroyed => (res'.events = res.events /\ outbound' = outbound)]_vars

\* the client went after the opening frames and the whole upstream body,
\* two delta lines, was then read and counted with the connection open
C27_UpstreamReadOn ==
    /\ mode = "stream"
    /\ res.destroyed
    /\ upstream = "responding"
    /\ script = <<"delta_a", "delta_a">>
    /\ pos = Len(wire)
    /\ totalOutputTokens = 2
    /\ Len(res.events) = 2

=============================================================================
